---- MODULE Spec2Model ----
(***************************************************************************)
(* A model of the coroutine runtime of src/src/Coroutines.c and of the     *)
(* implementation part of src/src/Coroutines.h (which adds the per-record  *)
(* state field): the running and idle lists, the value passing slot, the   *)
(* coroutineMain loop and the coroutine mutex.                             *)
(*                                                                         *)
(* Pointers are integers: NULL is 0, the records are 1..MaxRecs (record 1  *)
(* is the first coroutine), user data pointers are 11.., function pointers *)
(* 21.., stack buffers 31.., the mutex is 41, the condition 61.  A jmp_buf *)
(* is modelled by the name of the place that called setjmp on it (pos).    *)
(***************************************************************************)
EXTENDS Integers, Sequences, FiniteSets, TLC

\* ---- bounds -------------------------------------------------------------
MaxRecs == 4        \* coroutine records, the first coroutine included
MaxVal == 3         \* distinct user data pointers
MaxFunc == 2        \* distinct user functions
MaxId == 1          \* ids the user sets are 0..MaxId
MaxLevel == 2       \* cap on the recursion level of the mutex
MaxSignals == 1     \* cap on the signals the condition has pending
MaxWaiters == 2     \* cap on the waiters the condition counts
MaxBusy == 1        \* coroutines where every mutex and wait function is used
MaxMsgs == 2        \* Comessage objects
MaxThreads == 2     \* host threads of the thread-safe build

\* ---- program constants --------------------------------------------------
NULL == 0
first == 1
coroutineSuccess == 0
coroutineBusy == 1
coroutineError == 2
coroutineTimedout == 4
COROUTINE_NOT_RESUMABLE == -1
COROUTINE_BLOCKED == -2
\* the minimum of the id type; the value of the 8 bit configuration is used
\* (the 64 bit one does not fit the model checker's integers)
COROUTINE_ID_NOT_SET == -128
COROUTINE_STATE_NOT_RUNNING == 0
COROUTINE_STATE_RUNNING == 1
COROUTINE_STATE_BLOCKED == 2
comutexPlain == 0
comutexRecursive == 1
comutexTimed == 2
TIME_UTC == 1

Recs == 1..MaxRecs
UserVals == 11..(10 + MaxVal)
Funcs == 21..(20 + MaxFunc)
StackPtr(c) == 30 + c
Ids == 0..MaxId
Args == {NULL} \cup UserVals
M == 41                      \* the address of the one mutex
TS == 51                     \* the address of a deadline
CV == 61                     \* the address of the one condition
Msgs == 71..(70 + MaxMsgs)   \* the addresses of the Comessage objects
Threads == 1..MaxThreads

VARIABLES
  next,      \* Coroutine.next of every record
  state,     \* Coroutine.state of every record
  id,        \* Coroutine.id of every record
  running,   \* head of the running list
  idle,      \* head of the idle list
  saved,     \* the value passed between contexts
  pos,       \* where each record's context was captured ("none": not carved)
  func,      \* the local variable func of each record's coroutineMain
  mtx,       \* the Comutex
  cnd,       \* the Cocondition
  returnValue, \* the local returnValue of the wait call each record is in
  obs,       \* history: what the last library call handed to the running code
  op,        \* history: the last library call made by user code
  caller,    \* history: whose resume call started each record's current burst
  made,      \* history: the function given to the create that returned a record
  doneStack, \* history: the completed records not yet reused, newest first
  held,      \* history: successful locks minus successful unlocks per record
  script,    \* history: progress of the ping-pong scenario
  waiting,   \* history: the records inside a wait loop, oldest call first
  wake,      \* history: the waiters released since the last signal
  clock,     \* history: what the last call read from the clock, if it did
  destroyed, \* history: the records in a wait loop at the last destroy
  inherited, \* history: the owner of the mutex has returned since it took it
  inbox,     \* the messages linked from Coroutine.nextMessage, head first,
             \* once a message call was made
  msgs,      \* Comessage.type, handled, inUse and from of every message
  once,      \* thread-safe build: the once_flag _threadMetadataSetup is spent
  tw,        \* thread-safe build: the thread-specific values and records of the
             \* threads that have made a call
  called     \* history: the threads that have reached call_once

vars == <<next, state, id, running, idle, saved, pos, func, mtx, cnd,
          returnValue, obs, op, caller, made, doneStack, held, script,
          waiting, wake, clock, destroyed, inherited, inbox, msgs,
          once, tw, called>>

\* The environment of one call: what timespec_get returns (0 on failure,
\* TIME_UTC on success) and whether the value found in now is past the
\* deadline.  With get = TIME_UTC now is the time of the clock; with get = 0
\* now was not written and the comparison can go either way.
Envs ==
  {[get |-> 0, past |-> FALSE], [get |-> 0, past |-> TRUE],
   [get |-> TIME_UTC, past |-> FALSE], [get |-> TIME_UTC, past |-> TRUE]}
NoClock == [get |-> TIME_UTC, past |-> FALSE]
\* The call has not read the clock.
Unread == [get |-> -1, past |-> FALSE]

\* The machine state as one record, so that the library functions are
\* operators from machine state to machine state; rv is the int a function
\* returns, env the environment of the call being made.
WorldIn(e) ==
  [next |-> next, state |-> state, id |-> id, running |-> running,
   idle |-> idle, saved |-> saved, pos |-> pos, func |-> func, mtx |-> mtx,
   cnd |-> cnd, returnValue |-> returnValue, obs |-> obs,
   rv |-> coroutineSuccess, env |-> e, now |-> Unread]

World == WorldIn(NoClock)

Observe(who, kind, v, f) == [who |-> who, kind |-> kind, v |-> v, f |-> f]

\* The call returns v to the user code of the head of the running list.
ReturnToUser(s, kind, v) ==
  [s EXCEPT !.pos[s.running] = "user",
            !.obs = Observe(s.running, kind, v, NULL)]

\* A blocking call of the first coroutine that gives up and returns.
Spin_GiveUp(s) ==
  [s EXCEPT !.pos[first] = "user", !.obs = Observe(first, "spin", NULL, NULL)]

\* The first coroutine is in a loop around a coroutineYield that returns
\* at once and changes nothing: the call never returns.
Spin(s) ==
  [s EXCEPT !.pos[first] = "spin", !.obs = Observe(first, "spin", NULL, NULL)]

\* The call reads the clock: timespec_get(&now, TIME_UTC).
timespec_get(s) == [s EXCEPT !.now = s.env]

\* ---- lists --------------------------------------------------------------
\* coroutineResumable that only rejects the null pointer.
coroutineResumable_AnyRecord(s, coro) == coro # NULL

coroutineResumable(s, coro) == (coro # NULL) /\ (s.next[coro] = NULL)

coroutinePush(s, list, coro) ==
  IF coro # NULL
    THEN [s EXCEPT !.next[coro] = s[list], ![list] = coro]
    ELSE s

\* coroutinePop that unlinks the head together with its successor.
coroutinePop_Skip(s, list) ==
  LET coro == s[list]
      n == s.next[coro]
  IN  [s EXCEPT ![list] = IF n # NULL /\ s.next[n] # NULL
                            THEN s.next[n] ELSE n,
                !.next[coro] = NULL]

coroutinePop(s, list) ==
  LET coro == s[list]
  IN  [s EXCEPT ![list] = s.next[coro], !.next[coro] = NULL]

\* ---- stack carving ------------------------------------------------------
Carved(s) == {c \in Recs : s.pos[c] # "none"}
FreeRecs(s) == Recs \ Carved(s)
NextFree(s) == CHOOSE c \in FreeRecs(s) : \A d \in FreeRecs(s) : c <= d

\* coroutineStart and the head of coroutineMain: a zeroed record me is put
\* on the idle list and control goes back to the forker (the head of the
\* running list), the passed stack address being lost.
coroutineStart(s) ==
  IF FreeRecs(s) = {}
    THEN s
    ELSE LET me == NextFree(s)
             z  == [s EXCEPT !.next[me] = NULL,
                             !.state[me] = COROUTINE_STATE_NOT_RUNNING,
                             !.id[me] = COROUTINE_ID_NOT_SET,
                             !.func[me] = NULL]
             p  == coroutinePush(z, "idle", me)
         IN  [p EXCEPT !.saved = StackPtr(me), !.pos[me] = "fresh"]

\* ---- mutex: the non-blocking part ---------------------------------------
HasFlag(type, flag) == (type \div flag) % 2 = 1

\* comutexTrylock that takes the mutex from another owner.
comutexTrylock_Steal(s, m) ==
  IF m = NULL
    THEN [s EXCEPT !.rv = coroutineError]
    ELSE IF s.mtx.coroutine = s.running
              /\ HasFlag(s.mtx.type, comutexRecursive)
      THEN [s EXCEPT !.mtx.recursionLevel = @ + 1,
                     !.rv = coroutineSuccess]
      ELSE IF s.mtx.coroutine # s.running
        THEN [s EXCEPT !.mtx.coroutine = s.running,
                       !.mtx.recursionLevel = 1,
                       !.rv = coroutineSuccess]
        ELSE [s EXCEPT !.rv = coroutineError]

\* comutexTrylock that reports a relock of a non-recursive mutex by its
\* owner as Busy.
comutexTrylock_OwnerBusy(s, m) ==
  IF m = NULL
    THEN [s EXCEPT !.rv = coroutineError]
    ELSE IF s.mtx.coroutine = NULL
      THEN [s EXCEPT !.mtx.coroutine = s.running,
                     !.mtx.recursionLevel = 1,
                     !.rv = coroutineSuccess]
      ELSE IF s.mtx.coroutine = s.running
                /\ HasFlag(s.mtx.type, comutexRecursive)
        THEN [s EXCEPT !.mtx.recursionLevel = @ + 1,
                       !.rv = coroutineSuccess]
        ELSE [s EXCEPT !.rv = coroutineBusy]

comutexTrylock(s, m) ==
  IF m = NULL
    THEN [s EXCEPT !.rv = coroutineError]
    ELSE IF s.mtx.coroutine = NULL
      THEN [s EXCEPT !.mtx.coroutine = s.running,
                     !.mtx.recursionLevel = 1,
                     !.rv = coroutineSuccess]
      ELSE IF s.mtx.coroutine = s.running
                /\ HasFlag(s.mtx.type, comutexRecursive)
        THEN [s EXCEPT !.mtx.recursionLevel = @ + 1,
                       !.rv = coroutineSuccess]
        ELSE IF s.mtx.coroutine # s.running
          THEN [s EXCEPT !.rv = coroutineBusy]
          ELSE [s EXCEPT !.rv = coroutineError]

\* comutexUnlock that never clears the owner.
comutexUnlock_KeepOwner(s, m) ==
  IF m # NULL /\ s.mtx.coroutine = s.running
    THEN [s EXCEPT !.mtx.recursionLevel = @ - 1, !.rv = coroutineSuccess]
    ELSE [s EXCEPT !.rv = coroutineError]

\* comutexUnlock that releases the mutex whatever the recursion level.
comutexUnlock_ReleaseAll(s, m) ==
  IF m # NULL /\ s.mtx.coroutine = s.running
    THEN [s EXCEPT !.mtx.recursionLevel = 0, !.mtx.coroutine = NULL,
                   !.rv = coroutineSuccess]
    ELSE [s EXCEPT !.rv = coroutineError]

\* comutexUnlock without the test for the owner.
comutexUnlock_AnyCaller(s, m) ==
  IF m # NULL /\ s.mtx.coroutine # NULL
    THEN LET lower == [s EXCEPT !.mtx.recursionLevel = @ - 1,
                                !.rv = coroutineSuccess]
         IN  IF lower.mtx.recursionLevel = 0
               THEN [lower EXCEPT !.mtx.coroutine = NULL]
               ELSE lower
    ELSE [s EXCEPT !.rv = coroutineError]

\* comutexUnlock that gives the processor away as a yield would.
comutexUnlock_Handoff(s, m) ==
  IF m # NULL /\ s.mtx.coroutine = s.running /\ s.running # first
    THEN coroutinePop([s EXCEPT !.mtx.coroutine = NULL,
                                !.mtx.recursionLevel = 0,
                                !.rv = coroutineSuccess], "running")
    ELSE [s EXCEPT !.rv = coroutineError]

comutexUnlock(s, m) ==
  IF m # NULL /\ s.mtx.coroutine = s.running
    THEN LET lower == [s EXCEPT !.mtx.recursionLevel = @ - 1,
                                !.rv = coroutineSuccess]
         IN  IF lower.mtx.recursionLevel = 0
               THEN [lower EXCEPT !.mtx.coroutine = NULL]
               ELSE lower
    ELSE [s EXCEPT !.rv = coroutineError]

comutexInit(type) ==
  [lastYieldValue |-> NULL, type |-> type, coroutine |-> NULL,
   recursionLevel |-> 0]

comutexDestroy(s, m) ==
  IF m # NULL THEN [s EXCEPT !.mtx = comutexInit(0)] ELSE s

comutexLastYieldValue(s, m) ==
  IF m # NULL THEN s.mtx.lastYieldValue ELSE NULL

\* ---- condition: the non-blocking part -----------------------------------
coconditionInit == [lastYieldValue |-> NULL, numWaiters |-> 0, numSignals |-> 0]

coconditionSignal(s, cond) ==
  IF cond # NULL
    THEN [s EXCEPT !.cnd.numSignals = @ + 1, !.rv = coroutineSuccess]
    ELSE [s EXCEPT !.rv = coroutineError]

\* coconditionBroadcast that makes one signal available.
coconditionBroadcast_One(s, cond) ==
  IF cond # NULL
    THEN [s EXCEPT !.cnd.numSignals = 1, !.rv = coroutineSuccess]
    ELSE [s EXCEPT !.rv = coroutineError]

coconditionBroadcast(s, cond) ==
  IF cond # NULL
    THEN [s EXCEPT !.cnd.numSignals = s.cnd.numWaiters,
                   !.rv = coroutineSuccess]
    ELSE [s EXCEPT !.rv = coroutineError]

coconditionDestroy(s, cond) ==
  IF cond # NULL
    THEN [s EXCEPT !.cnd = [lastYieldValue |-> NULL, numWaiters |-> 0,
                            numSignals |-> -1]]
    ELSE s

coconditionLastYieldValue(s, cond) ==
  IF cond # NULL THEN s.cnd.lastYieldValue ELSE NULL

\* ---- context switch -----------------------------------------------------
RECURSIVE Dispatch(_), LockLoop(_), TimedLoop(_)

\* coroutinePass that jumps without storing the passed value.
coroutinePass_NoStore(s, currentCoroutine, p, arg) ==
  Dispatch([s EXCEPT !.pos[currentCoroutine] = p])

\* coroutinePass: store arg, capture the context of currentCoroutine (at the
\* place named by p) and jump to the head of the running list.
coroutinePass(s, currentCoroutine, p, arg) ==
  Dispatch([s EXCEPT !.saved = arg, !.pos[currentCoroutine] = p])

\* The switching branch of coroutineYield (running # first); p names the
\* caller of coroutineYield.
YieldSwitch(s, arg, p) ==
  LET currentCoroutine == s.running
      popped == coroutinePop(s, "running")
      blocked == [popped EXCEPT
                    !.state[currentCoroutine] = COROUTINE_STATE_BLOCKED]
  IN  coroutinePass(blocked, currentCoroutine, p, arg)

\* coroutineYield that forgets to mark the coroutine running again.
YieldReturn_NoMark(s) == s

\* The second half of coroutineYield, after coroutinePass has returned.
YieldReturn(s) ==
  [s EXCEPT !.state[s.running] = COROUTINE_STATE_RUNNING]

\* The loop of comutexLock that returns after one failed attempt.
LockLoop_GiveUp(s) ==
  ReturnToUser(comutexTrylock(s, M), "lock", coroutineSuccess)

\* The loop of comutexLock, entered with the last yielded value stored.
LockLoop(s) ==
  LET t == comutexTrylock(s, M)
  IN  IF t.rv = coroutineSuccess
        THEN ReturnToUser(t, "lock", coroutineSuccess)
        ELSE IF t.running # first
          THEN YieldSwitch(t, COROUTINE_BLOCKED, "lock")
          \* coroutineYield returns NULL at once and nothing has changed:
          \* the loop never ends
          ELSE Spin([t EXCEPT !.mtx.lastYieldValue = NULL])

\* The loop of comutexTimedlock, entered with rv the result of the last
\* comutexTrylock.
TimedLoop(s) ==
  IF s.rv = coroutineSuccess
    THEN ReturnToUser(s, "timedlock", coroutineSuccess)
    ELSE LET r == timespec_get(s)
         IN  IF r.env.get = 0
               THEN IF r.env.past
                 THEN ReturnToUser(r, "timedlock", coroutineTimedout)
                 ELSE IF r.running # first
                   THEN YieldSwitch(r, COROUTINE_BLOCKED, "timedlock")
                   ELSE Spin([r EXCEPT !.mtx.lastYieldValue = NULL])
               ELSE ReturnToUser(r, "timedlock", coroutineError)

\* The wait functions returning without locking the mutex again.
WaitRelock_Skip(s, kind) ==
  ReturnToUser(s, kind, s.returnValue[s.running])

\* comutexLock as the wait functions call it before they return: on Success
\* the wait function named by kind returns its returnValue.
WaitRelock(s, kind) ==
  LET t == comutexTrylock(s, M)
  IN  IF t.rv = coroutineSuccess
        THEN ReturnToUser(t, kind, t.returnValue[t.running])
        ELSE IF t.running # first
          THEN YieldSwitch(t, COROUTINE_BLOCKED,
                           IF kind = "wait" THEN "waitlock"
                                            ELSE "timedwaitlock")
          ELSE Spin([t EXCEPT !.mtx.lastYieldValue = NULL])

\* The end of the wait functions leaving the signal for the next waiter.
WaitExit_KeepSignal(s, kind) ==
  LET counted ==
        IF s.cnd.numSignals > 0
          THEN [s EXCEPT !.cnd.numWaiters = @ - 1]
          ELSE [s EXCEPT !.returnValue[s.running] = coroutineError]
  IN  WaitRelock([counted EXCEPT !.mtx.lastYieldValue = NULL], kind)

\* The end of the wait functions, from the test after the loop on.
WaitExit(s, kind) ==
  LET h == s.running
      counted ==
        IF s.cnd.numSignals > 0
          THEN [s EXCEPT !.cnd.numSignals = @ - 1,
                         !.cnd.numWaiters = @ - 1,
                         !.returnValue[h] =
                            IF kind = "wait" THEN @ ELSE coroutineSuccess]
          ELSE [s EXCEPT !.returnValue[h] = coroutineError]
  IN  WaitRelock([counted EXCEPT !.mtx.lastYieldValue = NULL], kind)

\* The loop of coconditionWait, entered at its test.
WaitLoop(s) ==
  IF s.cnd.numSignals = 0
    THEN IF s.running # first
      THEN YieldSwitch(s, COROUTINE_BLOCKED, "wait")
      \* coroutineYield returns NULL at once: the loop never ends
      ELSE Spin([s EXCEPT !.cnd.lastYieldValue = NULL])
    ELSE WaitExit(s, "wait")

RECURSIVE TimedwaitLoop(_)

\* The body of the loop of conditionTimedwait after its yield has returned
\* and the value is stored.
TimedwaitWake(s) ==
  LET r == timespec_get(s)
  IN  IF r.env.get = 0
        THEN IF r.env.past
          THEN WaitExit(
                 [r EXCEPT !.returnValue[r.running] = coroutineTimedout],
                 "timedwait")
          ELSE TimedwaitLoop(r)
        ELSE IF r.cnd.numSignals = 0
          THEN WaitExit(
                 [r EXCEPT !.returnValue[r.running] = coroutineError],
                 "timedwait")
          ELSE TimedwaitLoop(r)

\* The loop of conditionTimedwait, entered at its test.
TimedwaitLoop(s) ==
  IF s.cnd.numSignals = 0
    THEN IF s.running # first
      THEN YieldSwitch(s, COROUTINE_BLOCKED, "timedwait")
      ELSE IF s.env.get = 0 /\ ~s.env.past
        \* the deadline is never seen to pass: the loop never ends
        THEN Spin(timespec_get([s EXCEPT !.cnd.lastYieldValue = NULL]))
        ELSE TimedwaitWake([s EXCEPT !.cnd.lastYieldValue = NULL])
    ELSE WaitExit(s, "timedwait")

\* coroutineMain keeping the function of the previous activation.
ReceiveFunc_KeepOld(s, h) ==
  IF s.func[h] # NULL THEN s ELSE [s EXCEPT !.func[h] = s.saved]

\* coroutineMain taking the passed value as the function to run next.
ReceiveFunc(s, h) == [s EXCEPT !.func[h] = s.saved]

\* What the head of the running list does when control is passed to it,
\* up to the point where user code runs again.
Dispatch(s) ==
  LET h == s.running
      k == s.pos[h]
  IN  CASE k = "resume" -> ReturnToUser(s, "resume", s.saved)
        [] k = "create" -> ReturnToUser(s, "create", s.saved)
        [] k = "fresh" ->
             LET got == ReceiveFunc(s, h)
                 forked == coroutineStart(got)
             IN  YieldSwitch(forked, h, "created")
        [] k = "done" ->
             LET got == ReceiveFunc(s, h)
             IN  YieldSwitch(got, h, "created")
        [] k = "created" ->
             LET r == YieldReturn(s)
             IN  [r EXCEPT !.pos[h] = "user",
                           !.obs = Observe(h, "entry", s.saved, s.func[h])]
        [] k = "yield" -> ReturnToUser(YieldReturn(s), "yield", s.saved)
        [] k = "lock" ->
             LET r == YieldReturn(s)
             IN  LockLoop([r EXCEPT !.mtx.lastYieldValue = s.saved])
        [] k = "timedlock" ->
             LET r == YieldReturn(s)
             IN  TimedLoop(comutexTrylock(
                   [r EXCEPT !.mtx.lastYieldValue = s.saved], M))
        [] k = "wait" ->
             LET r == YieldReturn(s)
             IN  WaitLoop([r EXCEPT !.cnd.lastYieldValue = s.saved])
        [] k = "timedwait" ->
             LET r == YieldReturn(s)
             IN  TimedwaitWake([r EXCEPT !.cnd.lastYieldValue = s.saved])
        [] k = "waitlock" ->
             LET r == YieldReturn(s)
             IN  WaitRelock([r EXCEPT !.mtx.lastYieldValue = s.saved], "wait")
        [] k = "timedwaitlock" ->
             LET r == YieldReturn(s)
             IN  WaitRelock([r EXCEPT !.mtx.lastYieldValue = s.saved],
                            "timedwait")
        [] OTHER -> s

\* ---- the library calls --------------------------------------------------
\* p is "resume" for a call by user code and "create" for the call made by
\* coroutineCreate.
coroutineResume(s, targetCoroutine, arg, p) ==
  IF coroutineResumable(s, targetCoroutine)
    THEN LET currentCoroutine == s.running
             pushed == coroutinePush(s, "running", targetCoroutine)
         IN  coroutinePass(pushed, currentCoroutine, p, arg)
    ELSE ReturnToUser(s, p, COROUTINE_NOT_RESUMABLE)

\* coroutineYield without the test for the first coroutine: the value comes
\* back through the slot and the record is marked as after a switch.
coroutineYield_FirstToo(s, arg) ==
  IF s.running # first
    THEN YieldSwitch(s, arg, "yield")
    ELSE ReturnToUser(YieldReturn([s EXCEPT !.saved = arg]), "yield", arg)

coroutineYield(s, arg) ==
  IF s.running # first
    THEN YieldSwitch(s, arg, "yield")
    ELSE ReturnToUser(s, "yield", NULL)

\* coroutineCreate that resumes the head of the idle list without popping it.
coroutineCreate_NoPop(s, f) ==
  IF f = NULL
    THEN ReturnToUser(s, "create", NULL)
    ELSE LET forked == IF s.idle = NULL THEN coroutineStart(s) ELSE s
         IN  coroutineResume(forked, forked.idle, f, "create")

coroutineCreate(s, f) ==
  IF f = NULL
    THEN ReturnToUser(s, "create", NULL)
    ELSE LET forked == IF s.idle = NULL THEN coroutineStart(s) ELSE s
             newCoroutine == forked.idle
             popped == coroutinePop(forked, "idle")
         IN  coroutineResume(popped, newCoroutine, f, "create")

\* The tail of the loop without the reset of the id.
coroutineMainReturn_KeepId(s, ret) ==
  LET currentCoroutine == s.running
      popped == coroutinePop(s, "running")
      reset == [popped EXCEPT
                  !.state[currentCoroutine] = COROUTINE_STATE_NOT_RUNNING]
      parked == coroutinePush(reset, "idle", currentCoroutine)
  IN  coroutinePass(parked, currentCoroutine, "done", ret)

\* The tail of the loop passing NULL instead of the function's result.
coroutineMainReturn_LoseRet(s, ret) ==
  LET currentCoroutine == s.running
      popped == coroutinePop(s, "running")
      reset == [popped EXCEPT
                  !.id[currentCoroutine] = COROUTINE_ID_NOT_SET,
                  !.state[currentCoroutine] = COROUTINE_STATE_NOT_RUNNING]
      parked == coroutinePush(reset, "idle", currentCoroutine)
  IN  coroutinePass(parked, currentCoroutine, "done", NULL)

\* The tail of the loop that does not put the record on the idle list.
coroutineMainReturn_NoPark(s, ret) ==
  LET currentCoroutine == s.running
      popped == coroutinePop(s, "running")
      reset == [popped EXCEPT
                  !.id[currentCoroutine] = COROUTINE_ID_NOT_SET,
                  !.state[currentCoroutine] = COROUTINE_STATE_NOT_RUNNING]
  IN  coroutinePass(reset, currentCoroutine, "done", ret)

\* The tail of the coroutineMain loop: the user function returned ret.
coroutineMainReturn(s, ret) ==
  LET currentCoroutine == s.running
      popped == coroutinePop(s, "running")
      reset == [popped EXCEPT
                  !.id[currentCoroutine] = COROUTINE_ID_NOT_SET,
                  !.state[currentCoroutine] = COROUTINE_STATE_NOT_RUNNING]
      parked == coroutinePush(reset, "idle", currentCoroutine)
  IN  coroutinePass(parked, currentCoroutine, "done", ret)

\* coroutineSetId that always sets the id of the running coroutine.
coroutineSetId_Running(s, coro, i) ==
  ReturnToUser([s EXCEPT !.id[s.running] = i], "setId", coroutineSuccess)

coroutineId(s, coro) ==
  LET c == IF coro = NULL THEN s.running ELSE coro
  IN  s.id[c]

coroutineSetId(s, coro, i) ==
  LET c == IF coro = NULL THEN s.running ELSE coro
  IN  ReturnToUser([s EXCEPT !.id[c] = i], "setId", coroutineSuccess)

\* comutexLock that leaves the last yielded value as it finds it.
comutexLock_NoClear(s, m) ==
  IF m = NULL
    THEN ReturnToUser(s, "lock", coroutineError)
    ELSE LockLoop(s)

comutexLock(s, m) ==
  IF m = NULL
    THEN ReturnToUser(s, "lock", coroutineError)
    ELSE LockLoop([s EXCEPT !.mtx.lastYieldValue = NULL])

\* comutexTimedlock that tries the mutex before it looks at the type.
comutexTimedlock_TryFirst(s, m, ts) ==
  IF m = NULL \/ ts = NULL
    THEN ReturnToUser(s, "timedlock", coroutineError)
    ELSE LET cleared == [s EXCEPT !.mtx.lastYieldValue = NULL]
             tried == comutexTrylock(cleared, m)
         IN  IF ~HasFlag(cleared.mtx.type, comutexTimed)
               THEN ReturnToUser(tried, "timedlock", coroutineError)
               ELSE TimedLoop(tried)

comutexTimedlock(s, m, ts) ==
  IF m = NULL \/ ts = NULL
    THEN ReturnToUser(s, "timedlock", coroutineError)
    ELSE LET cleared == [s EXCEPT !.mtx.lastYieldValue = NULL]
         IN  IF ~HasFlag(cleared.mtx.type, comutexTimed)
               THEN ReturnToUser(cleared, "timedlock", coroutineError)
               ELSE TimedLoop(comutexTrylock(cleared, m))

coconditionWait(s, cond, m) ==
  IF cond = NULL \/ m = NULL
    THEN ReturnToUser(s, "wait", coroutineError)
    ELSE LET cleared == [s EXCEPT !.cnd.lastYieldValue = NULL]
             unlocked == comutexUnlock(cleared, m)
             counted == [unlocked EXCEPT
                           !.cnd.numWaiters = @ + 1,
                           !.returnValue[s.running] = coroutineSuccess]
         IN  WaitLoop(counted)

conditionTimedwait(s, cond, m, ts) ==
  IF cond = NULL \/ m = NULL \/ ts = NULL
    THEN ReturnToUser(s, "timedwait", coroutineError)
    ELSE LET cleared == [s EXCEPT !.cnd.lastYieldValue = NULL]
             unlocked == comutexUnlock(cleared, m)
             counted == [unlocked EXCEPT
                           !.cnd.numWaiters = @ + 1,
                           !.returnValue[s.running] = coroutineSuccess]
         IN  TimedwaitLoop(counted)

\* ---- message queue ------------------------------------------------------
\* A message as the user code initialises it.
NewMsg(m) ==
  [type |-> 1 + (m % 2), handled |-> FALSE, inUse |-> FALSE, from |-> NULL]

\* A coroutine that was never sent a message has an empty inbox, and a
\* message that was never passed to a message call is as initialised; rv is
\* what the call returns.
Queues ==
  [inbox |-> [c \in Recs |-> IF c \in DOMAIN inbox THEN inbox[c] ELSE <<>>],
   msgs |-> [m \in Msgs |-> IF m \in DOMAIN msgs THEN msgs[m] ELSE NewMsg(m)],
   rv |-> NULL]

MsgCalls == {"push", "pop", "peek", "popType", "handle", "release"}

\* The sequence q without its element at index i.
Without(q, i) == SubSeq(q, 1, i - 1) \o SubSeq(q, i + 1, Len(q))

\* comessagePush that leaves the handled flag as it finds it.
comessagePush_KeepHandled(q, sender, coroutine, comessage) ==
  IF coroutine = NULL \/ comessage = NULL
    THEN [q EXCEPT !.rv = coroutineError]
    ELSE [q EXCEPT !.inbox[coroutine] = Append(@, comessage),
                   !.msgs[comessage].inUse = TRUE,
                   !.msgs[comessage].from = sender,
                   !.rv = coroutineSuccess]

\* push links the message at the tail of the inbox of the target, marks it
\* in use and not handled, and stamps it with the sender.
comessagePush(q, sender, coroutine, comessage) ==
  IF coroutine = NULL \/ comessage = NULL
    THEN [q EXCEPT !.rv = coroutineError]
    ELSE [q EXCEPT !.inbox[coroutine] = Append(@, comessage),
                   !.msgs[comessage].inUse = TRUE,
                   !.msgs[comessage].handled = FALSE,
                   !.msgs[comessage].from = sender,
                   !.rv = coroutineSuccess]

\* peek returns the head without removing it.
comessagePeek(q, coroutine) ==
  IF coroutine = NULL \/ q.inbox[coroutine] = <<>>
    THEN [q EXCEPT !.rv = NULL]
    ELSE [q EXCEPT !.rv = Head(q.inbox[coroutine])]

\* pop removes and returns the head.
comessagePop(q, coroutine) ==
  IF coroutine = NULL \/ q.inbox[coroutine] = <<>>
    THEN [q EXCEPT !.rv = NULL]
    ELSE [q EXCEPT !.inbox[coroutine] = Tail(@),
                   !.rv = Head(q.inbox[coroutine])]

\* popType removes and returns the first message of the type, the others
\* keeping their order.
comessagePopType(q, coroutine, type) ==
  IF coroutine = NULL
    THEN [q EXCEPT !.rv = NULL]
    ELSE LET box == q.inbox[coroutine]
             hits == {i \in 1..Len(box) : q.msgs[box[i]].type = type}
         IN  IF hits = {}
               THEN [q EXCEPT !.rv = NULL]
               ELSE LET i == CHOOSE j \in hits : \A k \in hits : j <= k
                    IN  [q EXCEPT !.inbox[coroutine] = Without(box, i),
                                  !.rv = box[i]]

\* ---- thread-safe build --------------------------------------------------
\* The world of a thread for which no tss_set has run: tss_get gives NULL for
\* _first, _running, _idle and saved; its mutex is initialised and free.
\* status tells whether the thread still runs as the program says.
NoWorld ==
  [next |-> [c \in Recs |-> NULL],
   state |-> [c \in Recs |-> COROUTINE_STATE_NOT_RUNNING],
   id |-> [c \in Recs |-> COROUTINE_ID_NOT_SET],
   running |-> NULL, idle |-> NULL, saved |-> NULL,
   pos |-> [c \in Recs |-> "none"],
   func |-> [c \in Recs |-> NULL],
   mtx |-> comutexInit(comutexPlain), cnd |-> coconditionInit,
   returnValue |-> [c \in Recs |-> coroutineSuccess],
   obs |-> Observe(NULL, "start", NULL, NULL),
   rv |-> coroutineSuccess, env |-> NoClock, now |-> Unread,
   first |-> NULL, status |-> "ok"]

\* The world of thread th: a thread that has made no call has set nothing.
Tw(th) == IF th \in DOMAIN tw THEN tw[th] ELSE NoWorld

\* coroutineSetupThreadMetadata, run by the thread whose world is w: the
\* record first is allocated zeroed and stored in _first and _running of
\* that thread.
coroutineSetupThreadMetadata(w) ==
  [w EXCEPT !.first = first, !.running = first, !.idle = NULL,
            !.saved = NULL, !.pos[first] = "user", !.id[first] = 0,
            !.next[first] = NULL]

\* call_once(&_threadMetadataSetup, coroutineSetupThreadMetadata) in
\* thread th: the function runs in the thread that calls first, and never
\* again.
call_once(th) ==
  IF once THEN Tw(th) ELSE coroutineSetupThreadMetadata(Tw(th))

\* The call returns v to the code of the thread.
ThreadReturn(w, kind, v) ==
  IF w.running = NULL
    THEN [w EXCEPT !.obs = Observe(NULL, kind, v, NULL)]
    ELSE ReturnToUser(w, kind, v)

\* ---- the state machine --------------------------------------------------
Set(s) ==
  /\ next' = s.next
  /\ state' = s.state
  /\ id' = s.id
  /\ running' = s.running
  /\ idle' = s.idle
  /\ saved' = s.saved
  /\ pos' = s.pos
  /\ func' = s.func
  /\ mtx' = s.mtx
  /\ cnd' = s.cnd
  /\ returnValue' = s.returnValue
  /\ obs' = s.obs
  /\ clock' = s.now

Call(name, t, arg) == [name |-> name, t |-> t, arg |-> arg]

\* Records whose address user code can hold: those create has returned.
Exposed == {c \in Recs \ {first} : pos[c] \notin {"none", "fresh"}}

\* Records a create would have to carve: the activation of a never used
\* record forks its successor, the very first create forks two.
CarveNeed == IF idle = NULL THEN 2 ELSE IF pos[idle] = "fresh" THEN 1 ELSE 0

LockKinds == {"lock", "trylock", "timedlock"}
WaitKinds == {"wait", "timedwait"}

\* The ping-pong scenario: the driver creates P and C and resumes them in
\* turn with 0, 1, 2, 3, each yielding the value it received plus one.  The
\* integer k is the data pointer Val(k).
Val(k) == IF k = 0 THEN NULL ELSE 10 + k
Inc(v) == IF v = NULL THEN 11 ELSE v + 1
OffScript == [stage |-> -1, P |-> NULL, C |-> NULL, seen |-> <<>>]

ScriptStep(o) ==
  LET n == script.stage
      creates == o.name = "create" /\ o.arg # NULL /\ running = first
      resumes(t, k) == o.name = "resume" /\ o.t = t /\ o.arg = Val(k)
                         /\ running = first
      yields(c) == o.name = "yield" /\ running = c /\ o.arg = Inc(obs.v)
      seeing == [script EXCEPT !.stage = n + 1,
                               !.seen = Append(@, obs'.v)]
      onward == [script EXCEPT !.stage = n + 1]
  IN  CASE n = 0 /\ creates -> [onward EXCEPT !.P = obs'.v]
        [] n = 1 /\ creates -> [onward EXCEPT !.C = obs'.v]
        [] n = 2 /\ resumes(script.P, 0) -> onward
        [] n = 3 /\ yields(script.P) -> seeing
        [] n = 4 /\ resumes(script.C, 1) -> onward
        [] n = 5 /\ yields(script.C) -> seeing
        [] n = 6 /\ resumes(script.P, 2) -> onward
        [] n = 7 /\ yields(script.P) -> seeing
        [] OTHER -> OffScript

\* The signal scenario: a signal or broadcast on the condition, with no
\* signal pending and a plain mutex, finds the waiters of set blocked; out
\* lists those that have left their wait loop since.  The scenario ends
\* with the next signal, broadcast, wait or destroy.
WakeOff == [on |-> FALSE, kind |-> "none", set |-> <<>>, out |-> <<>>]

WakeStep(o) ==
  LET left == {c \in Recs : pos[c] \in WaitKinds /\ pos'[c] \notin WaitKinds}
  IN  IF o.name \in {"signal", "broadcast"}
        THEN IF o.t = CV /\ cnd.numSignals = 0 /\ waiting # <<>>
                  /\ mtx.type = comutexPlain
               THEN [on |-> TRUE, kind |-> o.name, set |-> waiting,
                     out |-> <<>>]
               ELSE WakeOff
      ELSE IF o.name \in WaitKinds \cup {"destroy"}
        THEN WakeOff
      ELSE IF wake.on /\ left # {}
        THEN [wake EXCEPT !.out = Append(@, CHOOSE c \in left : TRUE)]
      ELSE wake

\* The history variables follow what user code can see: the caller of the
\* operation, its arguments and the value handed to the code that runs next.
History(o) ==
  /\ op' = o
  /\ caller' = [c \in Recs |->
                  IF o.name = "resume" /\ c = o.t /\ obs'.who = c
                       /\ obs'.kind # "resume"
                    THEN running
                  ELSE IF c = running /\ o.name \in {"yield", "return"}
                    THEN NULL
                  ELSE caller[c]]
  /\ made' = IF o.name = "create" /\ obs'.v \in Recs
               THEN [made EXCEPT ![obs'.v] = o.arg]
               ELSE made
  /\ doneStack' = IF o.name = "return" THEN <<running>> \o doneStack
                  ELSE IF o.name = "create" /\ doneStack # <<>>
                          /\ obs'.v = Head(doneStack)
                    THEN Tail(doneStack)
                  ELSE doneStack
  /\ held' =
       IF o.name \in {"mutexInit", "mutexDestroy"} /\ o.t # NULL
         THEN [c \in Recs |-> 0] ELSE
       LET waits == o.name \in WaitKinds /\ o.t # NULL
                      /\ \A i \in 1..Len(o.arg) : o.arg[i] # NULL
           \* the unlock made by a wait function
           gave == IF waits /\ mtx.coroutine = running
                     THEN [held EXCEPT ![running] = @ - 1]
                     ELSE held
           \* the lock made by a wait function before it returns
           took == obs'.kind \in WaitKinds
                     /\ (o.name \in WaitKinds => waits)
       IN  IF (obs'.kind \in LockKinds /\ obs'.v = coroutineSuccess) \/ took
             THEN [gave EXCEPT ![obs'.who] = @ + 1]
           ELSE IF obs'.kind = "unlock" /\ obs'.v = coroutineSuccess
             THEN [gave EXCEPT ![obs'.who] = @ - 1]
           ELSE gave
  /\ script' = ScriptStep(o)
  /\ waiting' =
       LET inLoop(c) == pos'[c] \in WaitKinds
           before == {waiting[i] : i \in 1..Len(waiting)}
       IN  SelectSeq(waiting, inLoop)
             \o (IF inLoop(running) /\ running \notin before
                   THEN <<running>> ELSE <<>>)
  /\ wake' = WakeStep(o)
  /\ destroyed' =
       IF o.name = "destroy" /\ o.t # NULL
         THEN {c \in Recs : pos[c] \in WaitKinds}
         ELSE {c \in destroyed : pos'[c] \in WaitKinds}
  /\ inherited' =
       IF mtx'.coroutine = NULL \/ mtx'.coroutine # mtx.coroutine
         THEN FALSE
         ELSE IF o.name = "return" /\ mtx.coroutine = running
           THEN TRUE
           ELSE inherited
  /\ o.name \notin MsgCalls => UNCHANGED <<inbox, msgs>>
  /\ UNCHANGED <<once, tw, called>>

InitWith(type) ==
  /\ next = [c \in Recs |-> NULL]
  /\ state = [c \in Recs |-> COROUTINE_STATE_NOT_RUNNING]
  /\ id = [c \in Recs |-> IF c = first THEN 0 ELSE COROUTINE_ID_NOT_SET]
  /\ running = first
  /\ idle = NULL
  /\ saved = NULL
  /\ pos = [c \in Recs |-> IF c = first THEN "user" ELSE "none"]
  /\ func = [c \in Recs |-> NULL]
  /\ mtx = comutexInit(type)
  /\ cnd = coconditionInit
  /\ returnValue = [c \in Recs |-> coroutineSuccess]
  /\ obs = Observe(first, "start", NULL, NULL)
  /\ op = Call("start", NULL, NULL)
  /\ caller = [c \in Recs |-> NULL]
  /\ made = [c \in Recs |-> NULL]
  /\ doneStack = <<>>
  /\ held = [c \in Recs |-> 0]
  /\ script = [stage |-> 0, P |-> NULL, C |-> NULL, seen |-> <<>>]
  /\ waiting = <<>>
  /\ wake = WakeOff
  /\ clock = Unread
  /\ destroyed = {}
  /\ inherited = FALSE
  /\ inbox = [c \in {} |-> <<>>]
  /\ msgs = [m \in {} |-> NewMsg(m)]
  /\ once = FALSE
  /\ tw = [th \in {} |-> NoWorld]
  /\ called = {}

Init == InitWith(comutexPlain)

Create(f) ==
  /\ pos[running] = "user"
  /\ Cardinality(FreeRecs(World)) >= CarveNeed
  /\ Set(coroutineCreate(World, f))
  /\ History(Call("create", NULL, f))

Resume(t, a, e) ==
  /\ pos[running] = "user"
  /\ Set(coroutineResume(WorldIn(e), t, a, "resume"))
  /\ History(Call("resume", t, a))

Yield(a) ==
  /\ pos[running] = "user"
  /\ Set(coroutineYield(World, a))
  /\ History(Call("yield", NULL, a))

Return(r) ==
  /\ pos[running] = "user"
  /\ running # first
  /\ Set(coroutineMainReturn(World, r))
  /\ History(Call("return", NULL, r))

SetId(t, i) ==
  /\ pos[running] = "user"
  /\ Set(coroutineSetId(World, t, i))
  /\ History(Call("setId", t, i))

\* The recursion level is capped: no relock by the owner at MaxLevel.
LevelRoom ==
  ~(mtx.coroutine = running /\ HasFlag(mtx.type, comutexRecursive)
      /\ mtx.recursionLevel >= MaxLevel)

Lock(m) ==
  /\ pos[running] = "user"
  /\ LevelRoom
  /\ Set(comutexLock(World, m))
  /\ History(Call("lock", m, NULL))

Trylock(m) ==
  /\ pos[running] = "user"
  /\ LevelRoom
  /\ Set(ReturnToUser(comutexTrylock(World, m), "trylock",
                      comutexTrylock(World, m).rv))
  /\ History(Call("trylock", m, NULL))

Timedlock(m, ts, e) ==
  /\ pos[running] = "user"
  /\ LevelRoom
  /\ Set(comutexTimedlock(WorldIn(e), m, ts))
  /\ History(Call("timedlock", m, ts))

Unlock(m) ==
  /\ pos[running] = "user"
  /\ Set(ReturnToUser(comutexUnlock(World, m), "unlock",
                      comutexUnlock(World, m).rv))
  /\ History(Call("unlock", m, NULL))

\* The count of waiters is capped (a wait that ends with Error leaves it
\* raised).
Wait(c, m) ==
  /\ pos[running] = "user"
  /\ cnd.numWaiters < MaxWaiters
  /\ Set(coconditionWait(World, c, m))
  /\ History(Call("wait", c, <<m>>))

Timedwait(c, m, ts, e) ==
  /\ pos[running] = "user"
  /\ cnd.numWaiters < MaxWaiters
  /\ Set(conditionTimedwait(WorldIn(e), c, m, ts))
  /\ History(Call("timedwait", c, <<m, ts>>))

\* The pending signals are capped.
Signal(c) ==
  /\ pos[running] = "user"
  /\ cnd.numSignals < MaxSignals
  /\ Set(ReturnToUser(coconditionSignal(World, c), "signal",
                      coconditionSignal(World, c).rv))
  /\ History(Call("signal", c, NULL))

Broadcast(c) ==
  /\ pos[running] = "user"
  /\ Set(ReturnToUser(coconditionBroadcast(World, c), "broadcast",
                      coconditionBroadcast(World, c).rv))
  /\ History(Call("broadcast", c, NULL))

Destroy(c) ==
  /\ pos[running] = "user"
  /\ Set(ReturnToUser(coconditionDestroy(World, c), "destroy", NULL))
  /\ History(Call("destroy", c, NULL))

\* comutexInit, comutexDestroy and coconditionInit on the one mutex and the
\* one condition, and the calls that only read.
MutexInit(m, type) ==
  /\ pos[running] = "user"
  /\ Set(ReturnToUser(
           IF m # NULL THEN [World EXCEPT !.mtx = comutexInit(type)] ELSE World,
           "mutexInit",
           IF m # NULL THEN coroutineSuccess ELSE coroutineError))
  /\ History(Call("mutexInit", m, type))

MutexDestroy(m) ==
  /\ pos[running] = "user"
  /\ Set(ReturnToUser(comutexDestroy(World, m), "mutexDestroy", NULL))
  /\ History(Call("mutexDestroy", m, NULL))

CondInit(c) ==
  /\ pos[running] = "user"
  /\ Set(ReturnToUser(
           IF c # NULL THEN [World EXCEPT !.cnd = coconditionInit] ELSE World,
           "condInit",
           IF c # NULL THEN coroutineSuccess ELSE coroutineError))
  /\ History(Call("condInit", c, NULL))

GetId(t) ==
  /\ pos[running] = "user"
  /\ Set(ReturnToUser(World, "coroutineId", coroutineId(World, t)))
  /\ History(Call("coroutineId", t, NULL))

MutexLastYieldValue(m) ==
  /\ pos[running] = "user"
  /\ Set(ReturnToUser(World, "mutexLastYieldValue",
                      comutexLastYieldValue(World, m)))
  /\ History(Call("mutexLastYieldValue", m, NULL))

CondLastYieldValue(c) ==
  /\ pos[running] = "user"
  /\ Set(ReturnToUser(World, "condLastYieldValue",
                      coconditionLastYieldValue(World, c)))
  /\ History(Call("condLastYieldValue", c, NULL))

\* The environments that make a difference to a resume of t: the clock is
\* read only by a target inside a timed call.
ClockFor(t, E) ==
  IF t # NULL /\ pos[t] \in {"timedlock", "timedwait"} THEN E ELSE {NoClock}

\* create, resume and yield with resume arguments from A, yield arguments
\* from Y, functions from F and environments from E.
Switching(A, Y, F, E) ==
  \/ \E f \in F : Create(f)
  \/ \E t \in Exposed \cup {NULL}, a \in A :
        \E e \in ClockFor(t, E) : Resume(t, a, e)
  \/ \E a \in Y : Yield(a)

\* The coroutine operations, the return of the user function included.
Core(A, F) ==
  \/ Switching(A, A, F, {NoClock})
  \/ \E r \in A : Return(r)

Next == Core(Args, Funcs \cup {NULL})

Spec == Init /\ [][Next]_vars

\* The coroutine operations with one data pointer and one function, and the
\* setting of ids.
SmallArgs == {NULL, Val(1)}
SmallFuncs == {20 + 1}

NextId ==
  \/ Core(SmallArgs, SmallFuncs)
  \/ \E t \in Exposed \cup {NULL}, i \in Ids : SetId(t, i)

SpecId == Init /\ [][NextId]_vars

\* create, resume, yield and the mutex operations, on a mutex of any type.
InitMutex ==
  \E type \in {comutexPlain, comutexRecursive, comutexTimed,
               comutexRecursive + comutexTimed} : InitWith(type)

NextMutex ==
  \/ Switching(SmallArgs, {NULL}, SmallFuncs, Envs)
  \/ \E m \in {NULL, M} : Lock(m)
  \/ \E m \in {NULL, M} : Trylock(m)
  \/ \E m \in {NULL, M}, ts \in {NULL, TS} :
        \E e \in (IF m = NULL \/ ts = NULL THEN {NoClock} ELSE Envs) :
          Timedlock(m, ts, e)
  \/ \E m \in {NULL, M} : Unlock(m)

SpecMutex == InitMutex /\ [][NextMutex]_vars

\* A driver (the first coroutine) that creates up to n coroutines and
\* resumes them; they yield to it but neither create nor resume.
Driver(E, n) ==
  \/ /\ running = first
     /\ Cardinality(Exposed) < n
     /\ \E f \in SmallFuncs : Create(f)
  \/ /\ running = first
     /\ \E t \in Exposed : \E e \in ClockFor(t, E) : Resume(t, NULL, e)
  \/ /\ running # first
     /\ Yield(NULL)

\* The driver and coroutines that lock, unlock, wait, signal and broadcast,
\* on a plain mutex.
NextCond ==
  \/ Driver({NoClock}, MaxRecs)
  \/ Lock(M)
  \/ Unlock(M)
  \/ Wait(CV, M)
  \/ Signal(CV)
  \/ Broadcast(CV)

SpecCond == Init /\ [][NextCond]_vars

\* The driver and coroutines that use every mutex operation and both wait
\* functions, on a timed mutex, recursive or not.
InitWait ==
  \E type \in {comutexTimed, comutexRecursive + comutexTimed} : InitWith(type)

NextWait ==
  \/ Driver(Envs, MaxBusy)
  \/ Lock(M)
  \/ Trylock(M)
  \/ \E e \in Envs : Timedlock(M, TS, e)
  \/ Unlock(M)
  \/ Wait(CV, M)
  \/ \E e \in Envs : Timedwait(CV, M, TS, e)
  \/ Signal(CV)
  \/ Destroy(CV)

SpecWait == InitWait /\ [][NextWait]_vars

\* The driver and coroutines that block in lock, and every call that is not
\* meant to suspend its caller.
NextCalls ==
  \/ Driver({NoClock}, MaxBusy)
  \/ Lock(M)
  \/ Trylock(M)
  \/ Unlock(M)
  \/ Signal(CV)
  \/ Broadcast(CV)
  \/ Destroy(CV)
  \/ CondInit(CV)
  \/ \E type \in {comutexPlain, comutexRecursive} : MutexInit(M, type)
  \/ MutexDestroy(M)
  \/ \E t \in Exposed \cup {NULL} : SetId(t, 1)
  \/ \E t \in Exposed \cup {NULL} : GetId(t)
  \/ MutexLastYieldValue(M)
  \/ CondLastYieldValue(CV)

SpecCalls == Init /\ [][NextCalls]_vars

\* A driver that creates coroutines and resumes them; they try to lock and
\* unlock a plain or a recursive mutex, yield and return, and their records
\* are used again.
InitReuse == \E type \in {comutexPlain, comutexRecursive} : InitWith(type)

NextReuse ==
  \/ /\ running = first
     /\ \E f \in SmallFuncs : Create(f)
  \/ /\ running = first
     /\ \E t \in Exposed : Resume(t, NULL, NoClock)
  \/ /\ running # first
     /\ Yield(NULL)
  \/ Return(NULL)
  \/ Trylock(M)
  \/ Unlock(M)

SpecReuse == InitReuse /\ [][NextReuse]_vars

\* The message calls made by the user code of the running coroutine; q is
\* the outcome of the call.
MsgCall(q, name, t, arg) ==
  /\ pos[running] = "user"
  /\ Set(ReturnToUser(World, name, q.rv))
  /\ History(Call(name, t, arg))
  /\ inbox' = q.inbox
  /\ msgs' = q.msgs

\* User code pushes a message that is not in use.
Push(t, m) ==
  /\ IF m = NULL THEN TRUE ELSE ~Queues.msgs[m].inUse
  /\ MsgCall(comessagePush(Queues, running, t, m), "push", t, m)

Peek(t) == MsgCall(comessagePeek(Queues, t), "peek", t, NULL)

Pop(t) == MsgCall(comessagePop(Queues, t), "pop", t, NULL)

PopType(t, type) ==
  MsgCall(comessagePopType(Queues, t, type), "popType", t, type)

\* The receiver marks a message it has taken from its inbox as handled.
Handle(m) ==
  /\ Queues.msgs[m].inUse /\ ~Queues.msgs[m].handled
  /\ \A c \in Recs : \A i \in 1..Len(Queues.inbox[c]) : Queues.inbox[c][i] # m
  /\ MsgCall([Queues EXCEPT !.msgs[m].handled = TRUE], "handle", NULL, m)

\* The receiver releases a message it has taken from its inbox.
Release(m) ==
  /\ Queues.msgs[m].inUse
  /\ \A c \in Recs : \A i \in 1..Len(Queues.inbox[c]) : Queues.inbox[c][i] # m
  /\ MsgCall([Queues EXCEPT !.msgs[m].inUse = FALSE], "release", NULL, m)

\* The driver and coroutines that send messages to the created coroutines
\* and take them from the inboxes.
NextMsg ==
  \/ Driver({NoClock}, MaxBusy)
  \/ \E t \in Exposed \cup {NULL}, m \in Msgs : Push(t, m)
  \/ \E t \in Exposed : Peek(t)
  \/ \E t \in Exposed : Pop(t)
  \/ \E t \in Exposed : PopType(t, 1)
  \/ \E m \in Msgs : Handle(m)
  \/ \E m \in Msgs : Release(m)

SpecMsg == Init /\ [][NextMsg]_vars

\* The variables of the build without threads.
single == <<next, state, id, running, idle, saved, pos, func, mtx, cnd,
            returnValue, obs, op, caller, made, doneStack, held, script,
            waiting, wake, clock, destroyed, inherited, inbox, msgs>>

\* Thread th can make a call: it has not gone wrong and its code runs.
Able(th) ==
  /\ Tw(th).status = "ok"
  /\ IF Tw(th).running = NULL THEN TRUE
       ELSE Tw(th).pos[Tw(th).running] = "user"

\* The world of thread th becomes w.
Store(th, w) ==
  tw' = [t \in DOMAIN tw \cup {th} |-> IF t = th THEN w ELSE tw[t]]

\* A call of thread th that went through call_once and left w.
ThreadStep(th, w) ==
  /\ Store(th, w)
  /\ once' = TRUE
  /\ called' = called \cup {th}
  /\ UNCHANGED single

ExposedIn(w) == {c \in Recs \ {first} : w.pos[c] \notin {"none", "fresh"}}

\* coroutineCreate of the thread-safe build.  With no record in _running
\* the call evaluates setjmp(running->context) through a null pointer:
\* the thread is stopped by a trap, or goes on in an undefined way.
ThreadCreate(th, f) ==
  /\ Able(th)
  /\ IF f = NULL
       THEN /\ Store(th, ThreadReturn(Tw(th), "create", NULL))
            /\ UNCHANGED <<once, called, single>>
       ELSE LET w == call_once(th)
            IN  IF w.running = NULL
                  THEN \E out \in {"trap", "undefined"} :
                         ThreadStep(th, [w EXCEPT !.status = out])
                  ELSE /\ Cardinality(FreeRecs(w)) >=
                            (IF w.idle = NULL THEN 2
                             ELSE IF w.pos[w.idle] = "fresh" THEN 1 ELSE 0)
                       /\ ThreadStep(th, coroutineCreate(w, f))

ThreadResume(th, a) ==
  /\ Able(th)
  /\ LET w == call_once(th)
     IN  \E t \in ExposedIn(w) \cup {NULL} :
           ThreadStep(th, IF coroutineResumable(w, t)
                            THEN coroutineResume(w, t, a, "resume")
                            ELSE ThreadReturn(w, "resume",
                                              COROUTINE_NOT_RESUMABLE))

ThreadYield(th, a) ==
  /\ Able(th)
  /\ LET w == call_once(th)
     IN  ThreadStep(th, IF w.running # w.first
                          THEN coroutineYield(w, a)
                          ELSE ThreadReturn(w, "yield", NULL))

ThreadTrylock(th) ==
  /\ Able(th)
  /\ LET w == call_once(th)
         t == comutexTrylock(w, M)
     IN  ThreadStep(th, ThreadReturn(t, "trylock", t.rv))

\* The recursion level is capped from below as well.
ThreadUnlock(th) ==
  /\ Able(th)
  /\ Tw(th).mtx.recursionLevel > 0 - MaxLevel
  /\ LET w == call_once(th)
         t == comutexUnlock(w, M)
     IN  ThreadStep(th, ThreadReturn(t, "unlock", t.rv))

\* The threads of the thread-safe build, each creating coroutines, resuming
\* them, yielding, and trying and unlocking a mutex of its own.
NextThreads ==
  \E th \in Threads :
    \/ \E f \in SmallFuncs \cup {NULL} : ThreadCreate(th, f)
    \/ ThreadResume(th, NULL)
    \/ ThreadYield(th, NULL)
    \/ ThreadTrylock(th)
    \/ ThreadUnlock(th)

SpecThreads == Init /\ [][NextThreads]_vars

\* ---- properties ----------------------------------------------------------
RECURSIVE Chain(_, _)
\* The records reached from head along the next links (at most n of them).
Chain(head, n) ==
  IF head = NULL \/ n = 0 THEN <<>> ELSE <<head>> \o Chain(next[head], n - 1)

RunningList == Chain(running, MaxRecs + 1)
IdleList == Chain(idle, MaxRecs + 1)
Members(q) == {q[i] : i \in 1..Len(q)}

\* C1: a value received by a yield that returns in a coroutine other than
\* the first, or by a user function that is entered, is the arg of the
\* resume call that has just passed control to that coroutine.
C1_ValueIn ==
  (obs.kind \in {"yield", "entry"} /\ obs.who # first)
    => /\ op.name = "resume"
       /\ op.t = obs.who
       /\ obs.v = op.arg
       /\ running = obs.who

C1_Witness ==
  /\ obs.kind = "yield"
  /\ obs.who # first
  /\ op.name = "resume"
  /\ obs.v \in UserVals
  /\ Len(RunningList) = 3

C2_Step ==
  (op'.name \in {"yield", "return"} /\ running # first)
    => obs' = Observe(caller[running], "resume", op'.arg, NULL)

C2_PingPong ==
  /\ script.stage >= 4 => script.seen[1] = Val(1)
  /\ script.stage >= 6 => script.seen[2] = Val(2)
  /\ script.stage >= 8 => script.seen = <<Val(1), Val(2), Val(3)>>

\* C2: the argument of a yield and the value returned by a user function
\* come out of the resume call that started the burst, and the driver of the
\* ping-pong scenario sees 1, 2, 3.
C2_ValueOut == [][C2_Step]_vars /\ []C2_PingPong

C2_Witness == script.stage = 8 /\ op.name = "yield" /\ obs.kind = "resume"

C3_Step ==
  (op'.name = "yield" /\ running # first)
    => /\ running' = caller[running]
       /\ pos'[running'] = "user"
       /\ obs'.who = caller[running]
       /\ \A c \in Recs \ {running'} : pos[c] = "resume" => pos'[c] = "resume"
       /\ \A c \in Recs : pos[c] = "resume" => caller'[c] = caller[c]

\* C3: a yield passes control to the coroutine whose resume call started the
\* burst of the yielding coroutine, which becomes the head of the running
\* list; every other coroutine suspended inside resume stays suspended.
C3_YieldToResumer == [][C3_Step]_vars

\* B (the head) was resumed by A, which is itself inside a burst.
C3_Witness ==
  /\ op.name = "yield"
  /\ obs.kind = "resume"
  /\ running # first
  /\ caller[running] # NULL
  /\ pos[caller[running]] = "resume"

RunningRecs == {c \in Recs : state[c] = COROUTINE_STATE_RUNNING}

\* C4 as stated: at most one record is Running and it is the head of the
\* running list.
C4_Original ==
  /\ Cardinality(RunningRecs) <= 1
  /\ \A c \in RunningRecs : c = running

\* C4 as amended: the Running records are exactly the records on the
\* running list other than the first coroutine.
C4_RunningOnList == RunningRecs = Members(RunningList) \ {first}

\* Two records are Running: the head and the coroutine that resumed it.
C4_Witness ==
  /\ Cardinality(RunningRecs) = 2
  /\ running \in RunningRecs
  /\ pos[running] = "user"

NotResumableTarget(t) ==
  \/ t = NULL
  \/ t # NULL /\ (pos[t] \in {"done", "resume"} \/ t = running)

C5_Step ==
  (op'.name = "resume" /\ NotResumableTarget(op'.t))
    => /\ obs' = Observe(running, "resume", COROUTINE_NOT_RESUMABLE, NULL)
       /\ UNCHANGED <<running, idle, saved, next, pos, state>>

\* C5: resume of a target that is null, finished, the running coroutine
\* itself or suspended inside resume returns NotResumable to the caller
\* and changes neither the lists nor the slot nor any context.
C5_NotResumable == [][C5_Step]_vars

C5_Witness ==
  /\ op.name = "resume"
  /\ op.t # NULL
  /\ pos[op.t] = "done"
  /\ obs.v = COROUTINE_NOT_RESUMABLE
  /\ \E c \in Recs : pos[c] = "resume"

C6_Step ==
  (op'.name = "yield" /\ running = first)
    => /\ obs' = Observe(first, "yield", NULL, NULL)
       /\ UNCHANGED <<running, idle, next, state, pos>>

\* C6: yield with the first coroutine at the head of the running list
\* returns null to it and changes no list, no state and no context.
C6_FirstYield == [][C6_Step]_vars

C6_Witness ==
  /\ op.name = "yield"
  /\ op.arg # NULL
  /\ obs = Observe(first, "yield", NULL, NULL)
  /\ \E c \in Recs : pos[c] = "yield"

C7_Step ==
  (op'.name = "create" /\ op'.arg # NULL)
    => /\ running' = running
       /\ obs'.who = running /\ obs'.kind = "create"
       /\ pos'[running] = "user"
       /\ obs'.v \in Recs \ {first}
       /\ obs'.v \notin Members(RunningList') \cup Members(IdleList')
       /\ next'[obs'.v] = NULL
       /\ pos'[obs'.v] = "created"
       /\ pos[obs'.v] \in {"none", "fresh", "done"}

C7_Entry ==
  obs.kind = "entry"
    => /\ op.name = "resume"
       /\ obs.who = op.t
       /\ obs.v = op.arg
       /\ obs.f = made[obs.who]
       /\ obs.f # NULL

\* C7: create with a non-null function returns to its caller, still the
\* head of the running list, a record that is on no list, is resumable and
\* has not started its function; the function is entered by the first
\* resume of the record, with the arg of that resume.
C7_Create == [][C7_Step]_vars /\ []C7_Entry

C7_Witness ==
  /\ obs.kind = "entry"
  /\ obs.v \in UserVals
  /\ obs.f \in Funcs
  /\ running # first
  /\ caller[running] # first

C8_Step ==
  /\ op'.name = "return"
       => /\ obs' = Observe(caller[running], "resume", op'.arg, NULL)
          /\ running' = caller[running]
          /\ pos'[running'] = "user"
          /\ idle' = running
          /\ pos'[running] = "done"
          /\ id'[running] = COROUTINE_ID_NOT_SET
          /\ state'[running] = COROUTINE_STATE_NOT_RUNNING
  /\ \A c \in Recs :
       (pos[c] = "done" /\ pos'[c] # "done")
         => op'.name = "create" /\ obs'.v = c

C8_Parked ==
  /\ \A c \in Recs :
       pos[c] = "done"
         => /\ c \in Members(IdleList)
            /\ ~coroutineResumable(World, c)
            /\ state[c] = COROUTINE_STATE_NOT_RUNNING
  /\ (op.name = "resume" /\ op.t # NULL /\ pos[op.t] = "done")
       => obs = Observe(running, "resume", COROUTINE_NOT_RESUMABLE, NULL)

\* C8: when the user function of the running coroutine returns r, the
\* resume call that started its burst returns r to its caller, again the
\* head of the running list; the record is the head of the idle list with
\* id NotSet and state NotRunning; as long as it is parked it is on the idle
\* list and resume of it returns NotResumable, and only a create that
\* returns it ends that.
C8_Completion == [][C8_Step]_vars /\ []C8_Parked

\* A function has returned a value to a coroutine that carries an id.
C8_Witness ==
  /\ op.name = "return"
  /\ op.arg # NULL
  /\ obs.v = op.arg
  /\ running # first
  /\ id[running] \in Ids
  /\ id[idle] = COROUTINE_ID_NOT_SET

C9_Step ==
  (op'.name = "create" /\ op'.arg # NULL /\ doneStack # <<>>)
    => /\ obs'.v = Head(doneStack)
       /\ obs'.v = idle
       /\ Carved(World)' = Carved(World)
       /\ func'[obs'.v] = op'.arg
       /\ pos'[obs'.v] = "created"

C9_Entry ==
  (obs.kind = "entry" /\ obs.f # NULL) => obs.f = made[obs.who]

\* C9: when a completed record is parked, create returns the most recently
\* completed one, carving nothing, and binds it to the new function, which
\* is the one the next resume of the record enters.
C9_Reuse == [][C9_Step]_vars /\ []C9_Entry

\* A create has reused the newest of two completed records.
C9_Witness ==
  /\ op.name = "create"
  /\ op.arg # NULL
  /\ doneStack # <<>>
  /\ func[Head(doneStack)] # op.arg

Holders == {c \in Recs : held[c] > 0}

\* C10: the coroutines that have obtained Success from lock, trylock or
\* timedlock more often than from unlock are never two, and a Success is
\* handed only to a coroutine no other holds against.
C10_MutualExclusion ==
  /\ Cardinality(Holders) <= 1
  /\ (obs.kind \in LockKinds /\ obs.v = coroutineSuccess)
       => Holders = {obs.who}

\* A contender has retried while another coroutine holds the mutex, and
\* went back to its resumer.
C10_Witness ==
  /\ Cardinality(Holders) = 1
  /\ op.name = "resume"
  /\ op.t # NULL
  /\ op.t \notin Holders
  /\ pos[op.t] \in {"lock", "timedlock"}
  /\ obs.v = COROUTINE_BLOCKED

C11_Step ==
  (op'.name = "trylock" /\ op'.t = M)
    => /\ UNCHANGED <<running, idle, next, state, pos, saved>>
       /\ obs'.who = running
       /\ obs'.kind = "trylock"
       /\ CASE mtx.coroutine = NULL ->
                 /\ obs'.v = coroutineSuccess
                 /\ mtx' = [mtx EXCEPT !.coroutine = running,
                                       !.recursionLevel = 1]
            [] mtx.coroutine = running
                 /\ HasFlag(mtx.type, comutexRecursive) ->
                 /\ obs'.v = coroutineSuccess
                 /\ mtx' = [mtx EXCEPT !.recursionLevel = @ + 1]
            [] mtx.coroutine = running
                 /\ ~HasFlag(mtx.type, comutexRecursive) ->
                 /\ obs'.v = coroutineError
                 /\ mtx' = mtx
            [] OTHER ->
                 /\ obs'.v = coroutineBusy
                 /\ mtx' = mtx

\* C11: trylock on the mutex never switches coroutines and follows the
\* table: unowned gives Success with the caller as owner at level 1; owned by
\* the caller gives Success and one more level if the type is recursive and
\* Error with the mutex unchanged if not; owned by another coroutine gives
\* Busy with the mutex unchanged.
C11_TrylockTable == [][C11_Step]_vars

\* The owner of a timed, non-recursive mutex has tried to lock it again.
C11_Witness ==
  /\ op.name = "trylock"
  /\ obs.v = coroutineError
  /\ mtx.coroutine = running
  /\ mtx.type = comutexTimed
  /\ running # first

\* C12: the mutex is either unowned at level zero or owned at a level of at
\* least one; the level is at least two only on a recursive mutex and is
\* never negative.
C12_MutexInvariant ==
  /\ mtx.recursionLevel >= 0
  /\ \/ mtx.coroutine = NULL /\ mtx.recursionLevel = 0
     \/ mtx.coroutine # NULL /\ mtx.recursionLevel >= 1
  /\ mtx.recursionLevel >= 2 => HasFlag(mtx.type, comutexRecursive)

\* A wait entered at level two has returned after a resume: the waiter
\* kept the mutex at level one meanwhile and is back at level two.
C12_Witness ==
  /\ obs.kind = "wait"
  /\ op.name = "resume"
  /\ pos[running] = "user"
  /\ mtx.coroutine = running
  /\ mtx.recursionLevel = 2

\* C13: on a recursive mutex, a coroutine that has had more Success from
\* lock calls than from unlock calls is the owner at a level equal to the
\* difference, so that the mutex stays owned through the first N-1 unlocks;
\* when no coroutine has, the mutex is released; a trylock by another
\* coroutine returns Busy in the first case and Success in the second.
C13_RecursiveLocking ==
  HasFlag(mtx.type, comutexRecursive)
    => /\ \A c \in Recs :
            held[c] > 0 => mtx.coroutine = c /\ mtx.recursionLevel = held[c]
       /\ (\A c \in Recs : held[c] = 0)
            => mtx.coroutine = NULL /\ mtx.recursionLevel = 0
       /\ (op.name = "trylock" /\ op.t = M /\ held[running] = 0)
            => obs.v = coroutineBusy
       /\ (op.name = "trylock" /\ op.t = M /\ held[running] = 1)
            => obs.v = coroutineSuccess

\* The owner has unlocked once after two nested locks while a contender is
\* blocked in lock.
C13_Witness ==
  /\ HasFlag(mtx.type, comutexRecursive)
  /\ op.name = "unlock"
  /\ obs.v = coroutineSuccess
  /\ mtx.recursionLevel = MaxLevel - 1
  /\ mtx.coroutine = running
  /\ \E c \in Recs : pos[c] = "lock"

C14_Step ==
  (op'.name = "unlock")
    => /\ UNCHANGED <<running, idle, next, state, pos, saved>>
       /\ obs'.who = running
       /\ obs'.kind = "unlock"
       /\ IF op'.t = M /\ mtx.coroutine = running
            THEN /\ obs'.v = coroutineSuccess
                 /\ mtx'.recursionLevel = mtx.recursionLevel - 1
                 /\ mtx'.coroutine =
                      IF mtx.recursionLevel = 1 THEN NULL ELSE running
            ELSE /\ obs'.v = coroutineError
                 /\ mtx' = mtx

\* C14: unlock returns Success only to the owner, lowering the level by one
\* and clearing the owner exactly when the level reaches zero; for a null
\* mutex, an unowned mutex or a mutex owned by another coroutine it returns
\* Error and leaves the mutex unchanged.
C14_UnlockByOwner == [][C14_Step]_vars

\* A coroutine has tried to unlock the mutex another coroutine owns.
C14_Witness ==
  /\ op.name = "unlock"
  /\ op.t = M
  /\ obs.v = coroutineError
  /\ mtx.coroutine \notin {NULL, running}

\* A trylock by the running coroutine would not succeed.
TrylockFails ==
  /\ mtx.coroutine # NULL
  /\ ~(mtx.coroutine = running /\ HasFlag(mtx.type, comutexRecursive))

C15_Step ==
  /\ (op'.name = "lock" /\ op'.t = M /\ running # first /\ TrylockFails)
       => /\ obs' = Observe(caller[running], "resume", COROUTINE_BLOCKED, NULL)
          /\ running' = caller[running]
          /\ pos'[running] = "lock"
          /\ mtx'.coroutine = mtx.coroutine
          /\ mtx'.recursionLevel = mtx.recursionLevel
  /\ (op'.name = "resume" /\ op'.t # NULL /\ pos[op'.t] = "lock"
        /\ mtx.coroutine # NULL)
       => /\ obs' = Observe(running, "resume", COROUTINE_BLOCKED, NULL)
          /\ running' = running
          /\ pos'[op'.t] = "lock"
          /\ mtx'.coroutine = mtx.coroutine
          /\ mtx'.recursionLevel = mtx.recursionLevel
  /\ (obs'.kind = "lock" /\ obs'.v = coroutineSuccess
        /\ pos'[running'] = "user")
       => /\ mtx'.coroutine = obs'.who
          /\ running' = obs'.who
          /\ \/ mtx.coroutine = NULL
             \/ mtx.coroutine = obs'.who /\ HasFlag(mtx.type, comutexRecursive)

C15_Returns ==
  (obs.kind = "lock" /\ pos[running] = "user")
    => \/ obs.v = coroutineSuccess /\ mtx.coroutine = obs.who
       \/ obs.v = coroutineError /\ op.name = "lock" /\ op.t = NULL

\* C15: a lock call by a coroutine other than the first that finds the
\* mutex taken, and every retry that finds it taken after a resume, yields
\* Blocked to the resume call running the coroutine and leaves the mutex
\* with its owner; lock on the mutex returns only Success, only out of an
\* attempt that found the mutex free (or its own, if recursive), and the
\* caller is then the owner.
C15_LockProtocol == [][C15_Step]_vars /\ []C15_Returns

\* A coroutine blocked in lock has been resumed and has got the mutex.
C15_Witness ==
  /\ obs.kind = "lock"
  /\ obs.v = coroutineSuccess
  /\ op.name = "resume"
  /\ mtx.coroutine = running
  /\ running # first
  /\ \E c \in Recs : pos[c] = "lock"

\* C16: when lock or timedlock returns, the last yield value of the mutex
\* is null if the call acquired the mutex without yielding, and the arg of
\* the resume call that has just woken the caller otherwise, whatever the
\* other coroutines did on the mutex meanwhile.
C16_LastYieldValue ==
  /\ (obs.kind \in {"lock", "timedlock"} /\ op.name = obs.kind
        /\ obs.v = coroutineSuccess)
       => mtx.lastYieldValue = NULL
  /\ (obs.kind \in {"lock", "timedlock"} /\ op.name = "resume")
       => mtx.lastYieldValue = op.arg

\* A blocked lock call has returned after a resume with a data pointer
\* while another coroutine is blocked on the same mutex.
C16_Witness ==
  /\ obs.kind = "lock"
  /\ op.name = "resume"
  /\ op.arg = Val(1)
  /\ mtx.lastYieldValue = Val(1)
  /\ \E c \in Recs : pos[c] \in {"lock", "timedlock"}

\* The last call was a wait function given a null pointer.
NullWait ==
  /\ op.name \in WaitKinds
  /\ \/ op.t = NULL
     \/ \E i \in 1..Len(op.arg) : op.arg[i] = NULL

\* C17: whenever wait or timedwait, called with non-null arguments, hands
\* control back to its caller, with whatever result, the caller is the
\* owner of the mutex.
C17_OwnerOnReturn ==
  (obs.kind \in WaitKinds /\ pos[running] = "user" /\ ~NullWait)
    => /\ running = obs.who
       /\ mtx.coroutine = obs.who
       /\ mtx.recursionLevel >= 1
       /\ obs.v \in {coroutineSuccess, coroutineTimedout, coroutineError}

\* A timedwait entered by the owner of the mutex has been woken without a
\* signal, has failed on the clock and has returned Error to the coroutine,
\* the owner again; the count of waiters is left raised.
C17_Witness ==
  /\ obs.kind = "timedwait"
  /\ obs.v = coroutineError
  /\ op.name = "resume"
  /\ running # first
  /\ mtx.coroutine = running
  /\ held[running] = 1
  /\ cnd.numSignals = 0
  /\ cnd.numWaiters > 0

SeqSet(q) == {q[i] : i \in 1..Len(q)}

C18_Step ==
  /\ (op'.name = "resume" /\ op'.t # NULL /\ pos[op'.t] = "wait"
        /\ cnd.numSignals = 0)
       => /\ obs' = Observe(running, "resume", COROUTINE_BLOCKED, NULL)
          /\ pos'[op'.t] = "wait"
          /\ cnd'.numSignals = 0
          /\ cnd'.numWaiters = cnd.numWaiters
  /\ (op'.name = "resume" /\ op'.t # NULL /\ pos[op'.t] = "wait"
        /\ cnd.numSignals > 0)
       => /\ cnd'.numSignals = cnd.numSignals - 1
          /\ cnd'.numWaiters = cnd.numWaiters - 1
          /\ \/ /\ mtx.coroutine = NULL
                /\ obs' = Observe(op'.t, "wait", coroutineSuccess, NULL)
                /\ pos'[op'.t] = "user"
             \/ /\ mtx.coroutine # NULL
                /\ obs' = Observe(running, "resume", COROUTINE_BLOCKED, NULL)
                /\ pos'[op'.t] = "waitlock"
  /\ (op'.name = "signal" /\ op'.t = CV)
       => /\ cnd'.numSignals = cnd.numSignals + 1
          /\ cnd'.numWaiters = cnd.numWaiters
          /\ pos' = pos

C18_One ==
  (wake.on /\ wake.kind = "signal" /\ Len(wake.set) >= 2)
    => /\ Len(wake.out) <= 1
       /\ cnd.numSignals = 1 - Len(wake.out)
       /\ cnd.numWaiters = Len(wake.set) - Len(wake.out)
       /\ \A c \in SeqSet(wake.set) \ SeqSet(wake.out) : pos[c] = "wait"
       /\ \A c \in SeqSet(wake.out) : pos[c] # "wait"
       /\ (obs.kind = "wait" /\ obs.who \in SeqSet(wake.out))
            => obs.v = coroutineSuccess

\* C18: a signal adds one to numSignals; a resumed waiter that finds
\* numSignals zero yields Blocked and stays a waiter; one that finds it
\* positive takes one signal and one off numWaiters and returns Success from
\* wait (after the mutex is free); so with two or more waiters blocked and
\* no signal pending, after one signal and whatever resumes, one waiter at
\* most has left its wait and the others are still blocked in it.
C18_OneSignalOneWaiter == [][C18_Step]_vars /\ []C18_One

\* After one signal to two waiters the one resumed first has returned from
\* wait and yielded, and the other, resumed next, has yielded Blocked.
C18_Witness ==
  /\ wake.on
  /\ wake.kind = "signal"
  /\ Len(wake.set) >= 2
  /\ Len(wake.out) = 1
  /\ pos[wake.out[1]] = "yield"
  /\ op.name = "resume"
  /\ op.t \in SeqSet(wake.set) \ SeqSet(wake.out)
  /\ obs = Observe(first, "resume", COROUTINE_BLOCKED, NULL)

\* C19: after one signal to two or more blocked waiters with no signal
\* pending, a waiter that returns from wait is the one that called wait
\* first.
C19_Fifo ==
  (wake.on /\ wake.kind = "signal" /\ Len(wake.set) >= 2
     /\ obs.kind = "wait" /\ obs.who \in SeqSet(wake.set))
    => obs.who = wake.set[1]

C20_Step ==
  (wake.on /\ wake.kind = "broadcast" /\ op'.name = "resume"
     /\ op'.t \in SeqSet(wake.set) \ SeqSet(wake.out))
    => /\ wake'.out = Append(wake.out, op'.t)
       /\ pos'[op'.t] \notin WaitKinds
       /\ mtx.coroutine = NULL
            => obs' = Observe(op'.t, "wait", coroutineSuccess, NULL)
       /\ mtx.coroutine # NULL
            => /\ obs' = Observe(running, "resume", COROUTINE_BLOCKED, NULL)
               /\ pos'[op'.t] = "waitlock"

C20_All ==
  (wake.on /\ wake.kind = "broadcast")
    => /\ cnd.numSignals = Len(wake.set) - Len(wake.out)
       /\ cnd.numWaiters = Len(wake.set) - Len(wake.out)
       /\ \A c \in SeqSet(wake.set) \ SeqSet(wake.out) : pos[c] = "wait"
       /\ (obs.kind = "wait" /\ obs.who \in SeqSet(wake.out))
            => obs.v = coroutineSuccess
       /\ Len(wake.out) = Len(wake.set)
            => cnd.numWaiters = 0 /\ cnd.numSignals = 0

\* C20: after a broadcast that finds k waiters blocked and no signal
\* pending, every one of them leaves its wait at its next resume, in the
\* order of the resumes, and returns Success from wait (at once if the mutex
\* is free, else once it has got the mutex); numSignals and numWaiters both
\* count the waiters still blocked and are zero when all k have left.
C20_Broadcast == [][C20_Step]_vars /\ []C20_All

\* All the waiters the broadcast found, two at least, have been resumed
\* and the last of them has returned Success from wait.
C20_Witness ==
  /\ wake.on
  /\ wake.kind = "broadcast"
  /\ Len(wake.set) >= 2
  /\ Len(wake.out) = Len(wake.set)
  /\ op.name = "resume"
  /\ obs = Observe(wake.out[Len(wake.out)], "wait", coroutineSuccess, NULL)
  /\ cnd.numWaiters = 0
  /\ cnd.numSignals = 0

\* C21: while a signal or broadcast that found waiters blocked is still
\* pending for one of them, a coroutine that was not among them and calls
\* wait blocks in its wait loop and leaves the pending signals alone.
C21_FreshWaiter ==
  [][(op'.name = "wait" /\ op'.t = CV /\ wake.on /\ cnd.numSignals > 0
        /\ Len(wake.out) < Len(wake.set)
        /\ running # first /\ running \notin SeqSet(wake.set))
       => /\ pos'[running] = "wait"
          /\ cnd'.numSignals = cnd.numSignals]_vars

\* C22: between operations numWaiters >= numSignals >= 0 (the condition is
\* never destroyed here).
C22_CounterInvariant ==
  /\ cnd.numWaiters >= cnd.numSignals
  /\ cnd.numSignals >= 0

\* C23: a coroutine that was blocked in wait or timedwait when the condition
\* was destroyed leaves its wait loop with Error the next time it is
\* resumed, whatever signals were made in between; if the call returns at
\* that resume it returns Error.
C23_DestroyedWaiter ==
  [][(op'.name = "resume" /\ op'.t \in destroyed /\ pos[op'.t] \in WaitKinds)
       => /\ pos'[op'.t] \notin WaitKinds
          /\ returnValue'[op'.t] = coroutineError
          /\ obs'.kind \in WaitKinds
               => obs' = Observe(op'.t, obs'.kind, coroutineError, NULL)]_vars

\* C24: a wait or timedwait call made with a mutex the caller does not own
\* returns Error whenever it returns without blocking.
C24_NonOwnerWait ==
  [][(op'.name \in WaitKinds /\ op'.t = CV /\ mtx.coroutine # running
        /\ obs'.kind \in WaitKinds)
       => obs' = Observe(running, op'.name, coroutineError, NULL)]_vars

\* C25: a timedwait that, with no signal pending, reads a clock past its
\* deadline and returns, returns TimedOut, the caller owning the mutex.
C25_TimedwaitTimeout ==
  [][(obs'.kind = "timedwait" /\ cnd.numSignals = 0
        /\ clock'.get = TIME_UTC /\ clock'.past)
       => /\ obs'.v = coroutineTimedout
          /\ mtx'.coroutine = obs'.who]_vars

\* C26: a timedwait that, with no signal pending, reads a clock past its
\* deadline leaves its wait loop and takes itself off numWaiters.
C26_TimeoutCount ==
  [][(op'.name = "resume" /\ op'.t # NULL /\ pos[op'.t] = "timedwait"
        /\ cnd.numSignals = 0 /\ clock'.get = TIME_UTC /\ clock'.past)
       => /\ pos'[op'.t] # "timedwait"
          /\ cnd'.numWaiters = cnd.numWaiters - 1]_vars

\* The running coroutine calls timedlock on the mutex with a deadline.
TimedlockCall == op'.name = "timedlock" /\ op'.t = M /\ op'.arg = TS

\* C27: timedlock on a timed mutex that is taken, called when the clock is
\* past the deadline, returns TimedOut to its caller with no context switch
\* and leaves the mutex with its owner.
C27_PastDeadline ==
  [][(TimedlockCall /\ HasFlag(mtx.type, comutexTimed) /\ TrylockFails
        /\ clock'.get = TIME_UTC /\ clock'.past)
       => /\ obs' = Observe(running, "timedlock", coroutineTimedout, NULL)
          /\ running' = running
          /\ mtx'.coroutine = mtx.coroutine]_vars

C28_Step ==
  /\ (TimedlockCall /\ ~HasFlag(mtx.type, comutexTimed))
       => /\ obs' = Observe(running, "timedlock", coroutineError, NULL)
          /\ running' = running
          /\ pos' = pos
          /\ mtx'.coroutine = mtx.coroutine
          /\ mtx'.recursionLevel = mtx.recursionLevel
          /\ clock' = Unread
  /\ (TimedlockCall /\ HasFlag(mtx.type, comutexTimed) /\ ~TrylockFails)
       => /\ obs' = Observe(running, "timedlock", coroutineSuccess, NULL)
          /\ running' = running
          /\ pos' = pos
          /\ mtx'.coroutine = running
          /\ mtx'.recursionLevel =
               IF mtx.coroutine = NULL THEN 1 ELSE mtx.recursionLevel + 1
  /\ (op'.name = "resume" /\ op'.t # NULL /\ pos[op'.t] = "timedlock"
        /\ mtx.coroutine = NULL)
       => /\ obs' = Observe(op'.t, "timedlock", coroutineSuccess, NULL)
          /\ running' = op'.t
          /\ mtx'.coroutine = op'.t
          /\ mtx'.recursionLevel = 1
          /\ mtx'.lastYieldValue = op'.arg
  /\ \A c \in Recs :
       (pos'[c] = "timedlock" /\ (pos[c] # "timedlock" \/ op'.t = c))
         => /\ HasFlag(mtx.type, comutexTimed)
            /\ obs' = Observe(running', "resume", COROUTINE_BLOCKED, NULL)
            /\ mtx.coroutine # NULL
            /\ mtx'.coroutine = mtx.coroutine
            /\ mtx'.recursionLevel = mtx.recursionLevel

C28_Returns ==
  (obs.kind = "timedlock" /\ obs.v = coroutineSuccess)
    => mtx.coroutine = obs.who /\ HasFlag(mtx.type, comutexTimed)

C29_TimeSource ==
  [][/\ (TimedlockCall /\ HasFlag(mtx.type, comutexTimed) /\ TrylockFails
           /\ clock'.get = 0)
          => /\ obs' = Observe(running, "timedlock", coroutineError, NULL)
             /\ running' = running
     /\ (TimedlockCall /\ HasFlag(mtx.type, comutexTimed) /\ TrylockFails
           /\ clock'.get = TIME_UTC /\ ~clock'.past /\ running # first)
          => /\ obs' = Observe(caller[running], "resume", COROUTINE_BLOCKED,
                               NULL)
             /\ pos'[running] = "timedlock"]_vars

C30_Step ==
  /\ op'.name = "setId"
       => LET c == IF op'.t = NULL THEN running ELSE op'.t
          IN  /\ id' = [id EXCEPT ![c] = op'.arg]
              /\ obs' = Observe(running, "setId", coroutineSuccess, NULL)
              /\ running' = running
              /\ coroutineId([id |-> id', running |-> running'], op'.t)
                   = op'.arg
  /\ op'.name = "return"
       => id' = [id EXCEPT ![running] = COROUTINE_ID_NOT_SET]
  /\ op'.name \notin {"setId", "return"} => id' = id
  /\ (op'.name = "create" /\ obs'.v \in Recs /\ pos[obs'.v] # "done")
       => id'[obs'.v] = COROUTINE_ID_NOT_SET

C30_Ids ==
  /\ \A c \in Recs \ {first} :
       pos[c] \in {"none", "fresh"} => id[c] = COROUTINE_ID_NOT_SET
  /\ coroutineId(World, NULL) = id[running]
  /\ \A c \in Recs : coroutineId(World, c) = id[c]
  /\ doneStack # <<>> /\ op.name = "return"
       => id[Head(doneStack)] = COROUTINE_ID_NOT_SET

\* C30: the id of a record changes only by setId, which sets the id of the
\* record it is given (of the head of the running list for NULL) and of no
\* other, and by the return of its function, which sets it back to NotSet;
\* a record that create returns for the first time has id NotSet, and a
\* reused one has what its last return and the setId calls since left;
\* coroutineId reads that id, for NULL the one of the head of the running
\* list.  So the id the driver sets on a coroutine is what coroutineId(NULL)
\* gives inside it in every burst until its function returns.
C30_Identity == [][C30_Step]_vars /\ []C30_Ids

\* A coroutine whose id the driver has set runs a later burst and reads
\* that id, while another coroutine carries a different id.
C30_Witness ==
  /\ op.name = "resume"
  /\ op.t = running
  /\ running # first
  /\ obs.kind = "yield"
  /\ caller[running] = first
  /\ coroutineId(World, NULL) \in Ids
  /\ \E d \in Recs \ {first, running} :
       id[d] \in Ids /\ id[d] # coroutineId(World, NULL)

\* A create has returned a record: some record other than the first one has
\* been activated.
Activated == {c \in Recs \ {first} : pos[c] \notin {"none", "fresh"}}

C33_Idle ==
  (Activated # {} /\ pos[running] = "user")
    => /\ idle # NULL
       /\ LET q == IdleList
          IN  /\ pos[q[Len(q)]] = "fresh"
              /\ next[q[Len(q)]] = NULL
              /\ \A i \in 1..(Len(q) - 1) :
                   pos[q[i]] = "done" /\ next[q[i]] # NULL

C33_Step ==
  op'.name = "return"
    => /\ idle # NULL
       /\ idle' = running
       /\ next'[running] = idle

\* C33: once a create has returned a record, the idle list is non-empty
\* whenever user code runs; its bottom element is a record that was never
\* activated and the records above it are completed ones; a coroutine whose
\* function returns becomes the head of the idle list with the old head,
\* not null, as its next link.
C33_IdleNeverEmpty == [][C33_Step]_vars /\ []C33_Idle

\* A function has returned and its record lies on the idle list above
\* another completed record and the never activated one.
C33_Witness ==
  /\ op.name = "return"
  /\ Len(IdleList) >= 3
  /\ pos[idle] = "done"
  /\ pos[next[idle]] = "done"
  /\ pos[running] = "user"

\* The calls that are not meant to suspend their caller.
NonSuspending ==
  {"trylock", "unlock", "signal", "broadcast", "destroy", "condInit",
   "mutexInit", "mutexDestroy", "setId", "coroutineId",
   "mutexLastYieldValue", "condLastYieldValue"}

\* C34: trylock, unlock, signal, broadcast, the init and destroy calls of
\* mutex and condition, setId, coroutineId and the lastYieldValue calls
\* return to their caller without a context switch: the running list, the
\* idle list, the links, the state and the saved context of every record
\* and the passed value are the same before and after the call.
C34_NoSwitch ==
  [][op'.name \in NonSuspending
       => /\ running' = running
          /\ idle' = idle
          /\ next' = next
          /\ pos' = pos
          /\ state' = state
          /\ saved' = saved
          /\ obs'.who = running
          /\ obs'.kind = op'.name]_vars

\* A coroutine has unlocked the mutex another coroutine is blocked on, and
\* is still the one running.
C34_Witness ==
  /\ op.name = "unlock"
  /\ obs = Observe(running, "unlock", coroutineSuccess, NULL)
  /\ mtx.coroutine = NULL
  /\ \E c \in Recs \ {running} : pos[c] = "lock"
  /\ pos[running] = "user"

\* C35: while a coroutine is blocked in wait or timedwait (it has yielded
\* COROUTINE_BLOCKED and no signal has woken it yet) it does not own the
\* mutex, whatever the recursion level it held on entry.
C35_Released ==
  \A c \in Recs : pos[c] \in {"wait", "timedwait"} => mtx.coroutine # c

\* The records linked from the record after the head of the running list.
OnRunning == {c \in Recs : \E i \in 1..Len(RunningList) : RunningList[i] = c}

\* C36: the running list is never empty, holds no record twice, ends in the
\* first coroutine, whose next link is null, every other record on it has
\* a next link, and no record is on both the running and the idle list.
C36_RunningStructure ==
  /\ running # NULL
  /\ Len(RunningList) = Cardinality(OnRunning)
  /\ RunningList[Len(RunningList)] = first
  /\ next[first] = NULL
  /\ \A c \in OnRunning \ {first} : next[c] # NULL
  /\ OnRunning \cap Members(IdleList) = {}

\* A coroutine resumed by a coroutine that the first coroutine resumed is
\* running, and a record lies on the idle list.
C36_Witness ==
  /\ Len(RunningList) = 3
  /\ idle # NULL
  /\ op.name = "resume"
  /\ pos[running] = "user"

\* C37: once a coroutine other than the first has called lock on a
\* non-recursive mutex it owns, the call never returns: the coroutine stays
\* blocked in comutexLock as the owner, and every resume of it returns
\* COROUTINE_BLOCKED to the resumer.
C37_SelfDeadlock ==
  [][\A c \in Recs :
       (pos[c] = "lock" /\ mtx.coroutine = c)
         => /\ pos'[c] = "lock"
            /\ mtx'.coroutine = c
            /\ (op'.name = "resume" /\ op'.t = c)
                  => obs' = Observe(running, "resume", COROUTINE_BLOCKED, NULL)]_vars

\* The owner of a non-recursive mutex that called lock on it has been
\* resumed and has yielded COROUTINE_BLOCKED again.
C37_Witness ==
  /\ op.name = "resume"
  /\ op.t \in Recs
  /\ pos[op.t] = "lock"
  /\ mtx.coroutine = op.t
  /\ ~HasFlag(mtx.type, comutexRecursive)
  /\ obs = Observe(running, "resume", COROUTINE_BLOCKED, NULL)
  /\ mtx.lastYieldValue # NULL

\* C38: when the first coroutine calls lock on a mutex owned by another
\* coroutine, or wait on a condition with numSignals = 0, the call does not
\* return and no other coroutine runs: the first coroutine stays the head
\* of the running list inside the call, every other coroutine stays where
\* it is, and no step is ever taken afterwards.
C38_FirstBlocks ==
  [][/\ pos[first] # "spin"
     /\ ( /\ running = first
          /\ \/ op'.name = "lock" /\ op'.t = M
                  /\ mtx.coroutine \notin {NULL, first}
             \/ op'.name = "wait" /\ op'.t = CV /\ cnd.numSignals = 0 )
          => /\ pos'[first] = "spin"
             /\ running' = first
             /\ \A c \in Recs \ {first} : pos'[c] = pos[c] /\ state'[c] = state[c]]_vars

\* The first coroutine called lock on a mutex owned by a coroutine that has
\* given control back to it, and is caught in the call.
C38_Witness ==
  /\ op.name = "lock"
  /\ pos[first] = "spin"
  /\ running = first
  /\ mtx.coroutine \in Recs \ {first}
  /\ \E c \in Recs \ {first} : pos[c] \in {"yield", "lock", "wait", "waitlock"}

\* No coroutine is blocked in the loop of a wait function.
NoWaiter == \A c \in Recs : pos[c] \notin {"wait", "timedwait"}

C40_OwnerIsRecord ==
  [][/\ (op'.name = "return" /\ mtx.coroutine = running) => mtx' = mtx
     /\ (inherited /\ op'.name = "trylock" /\ op'.t = M
           /\ running # mtx.coroutine)
          => obs' = Observe(running, "trylock", coroutineBusy, NULL)
             /\ mtx' = mtx
     /\ (inherited /\ op'.name = "unlock" /\ op'.t = M
           /\ running = mtx.coroutine)
          => /\ obs' = Observe(running, "unlock", coroutineSuccess, NULL)
             /\ \/ mtx.recursionLevel > 1 /\ mtx'.coroutine = running
                     /\ mtx'.recursionLevel = mtx.recursionLevel - 1
                \/ mtx.recursionLevel = 1 /\ mtx'.coroutine = NULL
     /\ (inherited /\ op'.name = "trylock" /\ op'.t = M
           /\ running = mtx.coroutine)
          => IF HasFlag(mtx.type, comutexRecursive)
               THEN /\ obs' = Observe(running, "trylock", coroutineSuccess, NULL)
                    /\ mtx'.coroutine = running
                    /\ mtx'.recursionLevel = mtx.recursionLevel + 1
               ELSE /\ obs' = Observe(running, "trylock", coroutineError, NULL)
                    /\ mtx' = mtx]_vars

\* The function of a coroutine returned owning the mutex, create started a
\* new activation on its record, and that activation has unlocked it.
C40_Witness ==
  /\ op.name = "unlock"
  /\ obs = Observe(running, "unlock", coroutineSuccess, NULL)
  /\ running # first
  /\ inherited
  /\ mtx.coroutine = running
  /\ mtx.recursionLevel = 1

\* C32: a push of message m onto the empty inbox of a coroutine returns
\* coroutineSuccess and leaves m in use and not handled as the only message
\* of the inbox, and the pop on that coroutine that follows returns m itself
\* and leaves the inbox empty.
C32_RoundTrip ==
  [][/\ (op'.name = "push" /\ op'.t # NULL /\ op'.arg # NULL
           /\ Queues.inbox[op'.t] = <<>>)
          => /\ obs' = Observe(running, "push", coroutineSuccess, NULL)
             /\ inbox'[op'.t] = <<op'.arg>>
             /\ msgs'[op'.arg].inUse
             /\ ~msgs'[op'.arg].handled
     /\ (op.name = "push" /\ op.t # NULL /\ op.arg # NULL
           /\ Len(inbox[op.t]) = 1
           /\ op'.name = "pop" /\ op'.t = op.t)
          => /\ obs' = Observe(running, "pop", op.arg, NULL)
             /\ inbox'[op.t] = <<>>
             /\ msgs'[op.arg].inUse
             /\ ~msgs'[op.arg].handled]_vars

\* A message that was handled and released before has been pushed onto an
\* empty inbox by the driver and popped by the receiving coroutine.
C32_Witness ==
  /\ op.name = "pop"
  /\ op.t = running
  /\ running # first
  /\ obs.v \in Msgs
  /\ msgs[obs.v].from = first
  /\ msgs[obs.v].inUse
  /\ ~msgs[obs.v].handled
  /\ inbox[running] = <<>>
  /\ \E m \in Msgs \ {obs.v} : msgs[m].handled

\* C31: every thread that has called into the library runs as the program
\* says on a world of its own: its _first and _running hold a record, the
\* running list ends in its first coroutine, and the thread-specific values
\* of a thread change only in that thread's calls.
C31_OwnWorld ==
  \A th \in called :
    /\ Tw(th).status = "ok"
    /\ Tw(th).first # NULL
    /\ Tw(th).running # NULL

\* The calls of one thread leave the worlds of the other threads alone.
C31_NoInterference ==
  [][\A th \in Threads :
       Tw(th)' # Tw(th)
         => \A other \in Threads \ {th} : Tw(other)' = Tw(other)]_vars

====
